---- MODULE Spec2Model ----
(***************************************************************************)
(* Installation monitors of the Outline server manager.                    *)
(*                                                                         *)
(*   DigitalOceanServer  cached-refresh monitor driven by droplet tags     *)
(*   GcpServer           direct-poll monitor driven by guest attributes    *)
(*                                                                         *)
(* One behaviour follows one server object; `provider` says which class    *)
(* the console constructed.  JavaScript runs handlers to completion, so    *)
(* every action is one event-loop turn: the code between two awaits, or    *)
(* one timer callback.                                                     *)
(*                                                                         *)
(* Strings that the code takes apart are sequences of characters; a raw    *)
(* droplet tag is the sequence of its ':'-separated fields.  Progress      *)
(* values are in tenths (0.1 is 1, 1.0 is 10).                             *)
(***************************************************************************)
EXTENDS Integers, Sequences, FiniteSets, Bags, TLC

\* ------------------------------------------------------------------ bounds
\* waitOnInstall calls made on one server
MaxWaiters == 2
\* host.delete() calls on one server that are outstanding or have succeeded
MaxDeletes == 2
\* getDroplet requests that may be outstanding at once
MaxInflight == 2
\* clock ticks the model follows
MaxTicks == 1
MaxStarts == 3

\* ------------------------------------------------------- InstallState enum
UNKNOWN == 0
CREATED == 1
BOOTED == 2
SUCCESS == 3
ERROR == 4
DELETED == 5
InstallStates == {UNKNOWN, CREATED, BOOTED, SUCCESS, ERROR, DELETED}

\* ------------------------------------------------------------- tag names
KEY_VALUE_TAG == "kv"
CERTIFICATE_FINGERPRINT_TAG == "certsha256"
API_URL_TAG == "apiurl"
INSTALL_ERROR_TAG == "install-error"
DEPRECATED_API_PORT_TAG == "apiport"
DEPRECATED_API_PREFIX_TAG == "apiprefix"

\* --------------------------------------------------------------- timing
\* 5 * 60 * 1000
TIMEOUT_MS == 300000
\* milliseconds of wall-clock time that pass in one Tick of the model
TickMs == 300000

\* -------------------------------------------------------- string helpers
undefined == "undefined"
NoListener == 0
\* the callbacks the console may register as progress listener
Listeners == {1, 2}

\* String.prototype.toLowerCase on the identifiers that occur in tags
toLowerCase(s) ==
  CASE s = "KV" -> "kv"
    [] s = "Kv" -> "kv"
    [] s = "CertSHA256" -> "certsha256"
    [] s = "ApiUrl" -> "apiurl"
    [] s = "Install-Error" -> "install-error"
    [] OTHER -> s

\* String.prototype.endsWith for a one-character suffix
endsWith(str, ch) == Len(str) > 0 /\ str[Len(str)] = ch

\* hex strings the provider may publish and the text they encode
HexTable ==
  [h \in {"46", "75", "752f", "38", "7631", "45", ""} |->
     CASE h = "46" -> <<"F">>
       [] h = "75" -> <<"u">>
       [] h = "752f" -> <<"u", "/">>
       [] h = "38" -> <<"8">>
       [] h = "7631" -> <<"v", "1">>
       [] h = "45" -> <<"E">>
       [] OTHER -> <<>>]

\* hexToString: the decoded text, or a thrown error for anything that is
\* not a hex string
hexToString(hexValue) ==
  IF hexValue \in DOMAIN HexTable
    THEN [ok |-> TRUE, value |-> HexTable[hexValue]]
    ELSE [ok |-> FALSE, value |-> <<>>]

\* window.btoa on the fingerprints that occur
btoa(str) ==
  CASE str = <<"F">> -> "Rg=="
    [] str = <<"E">> -> "RQ=="
    [] str = <<"u">> -> "dQ=="
    [] OTHER -> "base64"

\* a prefix test that accepts every first field
startsWithCaseInsensitive_anyPrefix(tag, prefix) == Len(tag) >= 2

\* a prefix test that compares the letters as they are
startsWithCaseInsensitive_exact(tag, prefix) ==
  Len(tag) >= 2 /\ tag[1] = prefix

\* startsWithCaseInsensitive(tag, prefix + ':'): the tag has a first field,
\* followed by a colon, that equals the prefix up to letter case
startsWithCaseInsensitive(tag, prefix) ==
  Len(tag) >= 2 /\ toLowerCase(tag[1]) = toLowerCase(prefix)

EmptyMap == [k \in {} |-> <<>>]

RECURSIVE getTagMapFrom(_, _)
getTagMapFrom(tags, ret) ==
  IF tags = <<>> THEN ret
  ELSE LET tag == Head(tags)
           key == tag[2]
           hexValue == IF Len(tag) >= 3 THEN tag[3] ELSE undefined
           decoded == hexToString(hexValue)
       IN  IF ~startsWithCaseInsensitive(tag, KEY_VALUE_TAG)
             THEN getTagMapFrom(Tail(tags), ret)
           ELSE IF ~decoded.ok
             THEN getTagMapFrom(Tail(tags), ret)
           ELSE getTagMapFrom(Tail(tags),
                  [k \in DOMAIN ret \cup {toLowerCase(key)} |->
                     IF k = toLowerCase(key) THEN decoded.value ELSE ret[k]])

\* DigitalOceanServer.getTagMap
getTagMap(dropletInfo) == getTagMapFrom(dropletInfo.tags, EmptyMap)

\* tagMap[key] as a JavaScript condition: present and not the empty string
Truthy(tagMap, key) == key \in DOMAIN tagMap /\ tagMap[key] # <<>>

\* the first public address; the empty string stands for `undefined`, which
\* the caller only tests for falsiness
RECURSIVE firstPublic(_)
firstPublic(v4) ==
  IF v4 = <<>> THEN <<>>
  ELSE IF Head(v4).type = "public" THEN Head(v4).ip_address
  ELSE firstPublic(Tail(v4))

\* DigitalOceanServer.ipv4Address
ipv4Address(dropletInfo) == firstPublic(dropletInfo.networks)

Thrown == [ok |-> FALSE, value |-> <<>>]
Returned(v) == [ok |-> TRUE, value |-> v]

\* getManagementApiAddress that returns the apiurl text as it is
getManagementApiAddress_noSlash(dropletInfo) ==
  LET tagMap == getTagMap(dropletInfo)
  IN  IF Truthy(tagMap, API_URL_TAG)
        THEN Returned(tagMap[API_URL_TAG])
      ELSE IF ~Truthy(tagMap, DEPRECATED_API_PORT_TAG) THEN Thrown
      ELSE IF ipv4Address(dropletInfo) = <<>> THEN Thrown
      ELSE LET base == <<"h", "t", "t", "p", "s", ":", "/", "/">>
                         \o ipv4Address(dropletInfo) \o <<":">>
                         \o tagMap[DEPRECATED_API_PORT_TAG] \o <<"/">>
           IN  Returned(IF Truthy(tagMap, DEPRECATED_API_PREFIX_TAG)
                          THEN base \o tagMap[DEPRECATED_API_PREFIX_TAG]
                                    \o <<"/">>
                          ELSE base)

\* DigitalOceanServer.getManagementApiAddress
getManagementApiAddress(dropletInfo) ==
  LET tagMap == getTagMap(dropletInfo)
      withSlash(a) == IF endsWith(a, "/") THEN a ELSE a \o <<"/">>
  IN  IF Truthy(tagMap, API_URL_TAG)
        THEN Returned(withSlash(tagMap[API_URL_TAG]))
      ELSE IF ~Truthy(tagMap, DEPRECATED_API_PORT_TAG) THEN Thrown
      ELSE IF ipv4Address(dropletInfo) = <<>> THEN Thrown
      ELSE LET base == <<"h", "t", "t", "p", "s", ":", "/", "/">>
                         \o ipv4Address(dropletInfo) \o <<":">>
                         \o tagMap[DEPRECATED_API_PORT_TAG] \o <<"/">>
               apiAddress ==
                 IF Truthy(tagMap, DEPRECATED_API_PREFIX_TAG)
                   THEN base \o tagMap[DEPRECATED_API_PREFIX_TAG] \o <<"/">>
                   ELSE base
           IN  Returned(withSlash(apiAddress))

\* DigitalOceanServer.getCertificateFingerprint
getCertificateFingerprint(dropletInfo) ==
  LET tagMap == getTagMap(dropletInfo)
  IN  IF Truthy(tagMap, CERTIFICATE_FINGERPRINT_TAG)
        THEN Returned(btoa(tagMap[CERTIFICATE_FINGERPRINT_TAG]))
        ELSE Thrown

\* ------------------------------------------- what the provider may answer
PrivateNetworks == << [type |-> "private", ip_address |-> <<"p">>] >>

\* tags outside the kv namespace, put before the kv tags of a droplet
ForeignTagsBefore == << <<"shadowbox">>, <<"install-error", "45">> >>

\* a tag outside the kv namespace, put after the kv tags of a droplet
ForeignTagsAfter == << <<"kvs", "certsha256", "46">> >>

\* droplet descriptions by what they publish: the status, whether there are
\* tags outside the kv namespace, the hex value of the apiurl, apiport and
\* apiprefix tags ("absent" for no tag), whether a certsha256 tag is there,
\* the networks, and the letter case the tags are written in
SnapshotDescs ==
  [status : {"new", "active"},
   foreign : BOOLEAN,
   url : {"absent", "", "75", "752f"},
   port : {"absent", "38"},
   prefix : {"absent", "7631"},
   cert : BOOLEAN,
   networks : {<<>>, PrivateNetworks,
               PrivateNetworks \o << [type |-> "public",
                                       ip_address |-> <<"a">>] >>},
   mixedCase : BOOLEAN]

\* the raw tags of a described droplet
SnapshotTags(desc) ==
  LET tag(kv, key, hex) == IF hex = "absent" THEN <<>> ELSE <<<<kv, key, hex>>>>
  IN  (IF desc.foreign THEN ForeignTagsBefore ELSE <<>>)
        \o tag(IF desc.mixedCase THEN "KV" ELSE "kv",
               IF desc.mixedCase THEN "CertSHA256" ELSE "certsha256",
               IF desc.cert THEN "46" ELSE "absent")
        \o tag(IF desc.mixedCase THEN "Kv" ELSE "kv",
               IF desc.mixedCase THEN "ApiUrl" ELSE "apiurl", desc.url)
        \o tag(IF desc.mixedCase THEN "Kv" ELSE "kv", "apiport", desc.port)
        \o tag(IF desc.mixedCase THEN "KV" ELSE "kv", "apiprefix", desc.prefix)
        \o (IF desc.foreign THEN ForeignTagsAfter ELSE <<>>)

certTag == <<"kv", "certsha256", "46">>
certTagUpper == <<"KV", "CertSHA256", "46">>
urlTag == <<"kv", "apiurl", "75">>
portTag == <<"kv", "apiport", "38">>
errorTag == <<"kv", "install-error", "45">>
badHexTag == <<"kv", "apiurl", "zz">>
foreignTag == <<"shadowbox">>

NoNetworks == <<>>
PublicNetworks ==
  << [type |-> "private", ip_address |-> <<"p">>],
     [type |-> "public", ip_address |-> <<"a">>] >>

Droplet(status, tags, networks) ==
  [status |-> status, tags |-> tags, networks |-> networks]

\* the described droplet, as the constructor receives it
SnapshotDroplet(desc) ==
  Droplet(desc.status, SnapshotTags(desc), desc.networks)

\* the droplet descriptions getDroplet may return
DropletInfos ==
  { Droplet("new", <<>>, NoNetworks),
    Droplet("active", <<>>, PublicNetworks),
    Droplet("active", <<foreignTag, badHexTag>>, PublicNetworks),
    Droplet("active", <<certTag>>, PublicNetworks),
    Droplet("active", <<certTag, urlTag>>, PublicNetworks),
    Droplet("active", <<certTagUpper, portTag>>, PublicNetworks),
    Droplet("active", <<certTagUpper, portTag>>, NoNetworks),
    Droplet("active", <<errorTag>>, PublicNetworks),
    Droplet("active", <<certTag, urlTag, errorTag>>, PublicNetworks) }

\* ---------------------------------------------------------------- state
VARIABLES
  provider,      \* "DigitalOcean", "Gcp" or "ShadowboxAccessService": the
                 \* class of the object
  doServer,      \* the DigitalOceanServer object and the calls it has made
  now,           \* ticks since the DigitalOceanServer was constructed
  refreshTimer,  \* the 3 s interval of pollInstallState
  refresh,       \* runs of the 3 s interval callback waiting for getDroplet
  doWaiters,     \* one entry per DigitalOceanServer.waitOnInstall call
  doDeletes,     \* DigitalOceanHost.delete: deleteDroplet requests
                 \* outstanding, deleteCallback invocations made
  gcpServer,     \* the GcpServer object and the calls it has made
  completion,    \* the instance-creation promise given to GcpServer
  gcpWaiters,    \* the bag of GcpServer.waitOnInstall calls: where each
                 \* is suspended, or how its promise settled
  gcpDeletes,    \* GcpHost.delete: where the calls are suspended
  accessService  \* the ShadowboxAccessService object, the servers it has
                 \* created and its start() calls

doVars == <<doServer, now, refreshTimer, refresh, doWaiters, doDeletes>>
gcpVars == <<gcpServer, completion, gcpWaiters, gcpDeletes>>
vars == <<provider, doVars, gcpVars, accessService>>

\* -------------------------------------------------- DigitalOceanServer
\* installProgress with the values of the other provider
DO_installProgress_gcpValues(installState) ==
  CASE installState = UNKNOWN -> 1
    [] installState = CREATED -> 2
    [] installState = BOOTED -> 8
    [] installState = SUCCESS -> 10
    [] OTHER -> 0

\* DigitalOceanServer.installProgress, in tenths
DO_installProgress(installState) ==
  CASE installState = UNKNOWN -> 1
    [] installState = CREATED -> 5
    [] installState = BOOTED -> 6
    [] installState = SUCCESS -> 10
    [] OTHER -> 0

\* a handler starts with no listener call made yet
Begin(srv) == [srv EXCEPT !.notified = <<>>]

\* this.listener(progress)
Notify(srv, progress) ==
  [srv EXCEPT !.notified = Append(@, <<srv.listener, progress>>)]

\* setInstallState without the check that the state is final
DO_setInstallState_unguarded(srv, installState) ==
  LET s1 == [srv EXCEPT !.installState = installState,
                        !.installCompleted =
                           IF installState = SUCCESS THEN TRUE ELSE @]
  IN  IF s1.listener # NoListener
        THEN Notify(s1, DO_installProgress(s1.installState))
        ELSE s1

\* setInstallState that takes only states above SUCCESS as final
DO_setInstallState_offByOne(srv, installState) ==
  IF srv.installState > SUCCESS THEN srv
  ELSE DO_setInstallState_unguarded(srv, installState)

\* DigitalOceanServer.setInstallState
DO_setInstallState(srv, installState) ==
  IF srv.installState >= SUCCESS THEN srv
  ELSE LET s1 == [srv EXCEPT !.installState = installState,
                             !.installCompleted =
                                IF installState = SUCCESS THEN TRUE ELSE @]
       IN  IF s1.listener # NoListener
             THEN Notify(s1, DO_installProgress(s1.installState))
             ELSE s1

\* setApiUrlAndCertificate that trusts the fingerprint before it resolves
\* the address
setApiUrlAndCertificate_trustFirst(srv) ==
  LET certificateFingerprint == getCertificateFingerprint(srv.dropletInfo)
      apiAddress == getManagementApiAddress(srv.dropletInfo)
      trusted == [srv EXCEPT
                    !.trustCalls = Append(@, certificateFingerprint.value)]
  IN  IF ~certificateFingerprint.ok THEN [ret |-> FALSE, srv |-> srv]
      ELSE IF ~apiAddress.ok THEN [ret |-> FALSE, srv |-> trusted]
      ELSE [ret |-> TRUE,
            srv |-> [trusted EXCEPT
                       !.apiUrlCalls = Append(@, apiAddress.value)]]

\* DigitalOceanServer.setApiUrlAndCertificate: the return value and the
\* server after the calls it made
setApiUrlAndCertificate(srv) ==
  LET certificateFingerprint == getCertificateFingerprint(srv.dropletInfo)
      apiAddress == getManagementApiAddress(srv.dropletInfo)
  IN  IF ~certificateFingerprint.ok THEN [ret |-> FALSE, srv |-> srv]
      ELSE IF ~apiAddress.ok THEN [ret |-> FALSE, srv |-> srv]
      ELSE [ret |-> TRUE,
            srv |-> [srv EXCEPT
                       !.trustCalls = Append(@, certificateFingerprint.value),
                       !.apiUrlCalls = Append(@, apiAddress.value)]]

\* updateInstallState without the early return for a final state
updateInstallState_noEarlyReturn(srv, elapsed) ==
  LET tagMap == getTagMap(srv.dropletInfo)
      set == setApiUrlAndCertificate(srv)
  IN  IF Truthy(tagMap, INSTALL_ERROR_TAG)
        THEN DO_setInstallState(srv, ERROR)
      ELSE IF elapsed >= TIMEOUT_MS
        THEN DO_setInstallState(srv, ERROR)
      ELSE IF set.ret
        THEN DO_setInstallState(set.srv, SUCCESS)
      ELSE IF DOMAIN tagMap # {}
        THEN DO_setInstallState(set.srv, BOOTED)
      ELSE IF srv.dropletInfo.status = "active"
        THEN DO_setInstallState(set.srv, CREATED)
      ELSE set.srv

\* updateInstallState that looks for the success tags first
updateInstallState_successFirst(srv, elapsed) ==
  IF srv.installState >= SUCCESS THEN srv
  ELSE LET tagMap == getTagMap(srv.dropletInfo)
           set == setApiUrlAndCertificate(srv)
       IN  IF set.ret
             THEN DO_setInstallState(set.srv, SUCCESS)
           ELSE IF Truthy(tagMap, INSTALL_ERROR_TAG)
             THEN DO_setInstallState(set.srv, ERROR)
           ELSE IF elapsed >= TIMEOUT_MS
             THEN DO_setInstallState(set.srv, ERROR)
           ELSE IF DOMAIN tagMap # {}
             THEN DO_setInstallState(set.srv, BOOTED)
           ELSE IF srv.dropletInfo.status = "active"
             THEN DO_setInstallState(set.srv, CREATED)
           ELSE set.srv

\* updateInstallState without the timeout branch
updateInstallState_noTimeout(srv, elapsed) ==
  IF srv.installState >= SUCCESS THEN srv
  ELSE LET tagMap == getTagMap(srv.dropletInfo)
           set == setApiUrlAndCertificate(srv)
       IN  IF Truthy(tagMap, INSTALL_ERROR_TAG)
             THEN DO_setInstallState(srv, ERROR)
           ELSE IF set.ret
             THEN DO_setInstallState(set.srv, SUCCESS)
           ELSE IF DOMAIN tagMap # {}
             THEN DO_setInstallState(set.srv, BOOTED)
           ELSE IF srv.dropletInfo.status = "active"
             THEN DO_setInstallState(set.srv, CREATED)
           ELSE set.srv

\* updateInstallState of pollInstallState, `elapsed` ms after construction
updateInstallState(srv, elapsed) ==
  IF srv.installState >= SUCCESS THEN srv
  ELSE LET tagMap == getTagMap(srv.dropletInfo)
           set == setApiUrlAndCertificate(srv)
       IN  IF Truthy(tagMap, INSTALL_ERROR_TAG)
             THEN DO_setInstallState(srv, ERROR)
           ELSE IF elapsed >= TIMEOUT_MS
             THEN DO_setInstallState(srv, ERROR)
           ELSE IF set.ret
             THEN DO_setInstallState(set.srv, SUCCESS)
           ELSE IF DOMAIN tagMap # {}
             THEN DO_setInstallState(set.srv, BOOTED)
           ELSE IF srv.dropletInfo.status = "active"
             THEN DO_setInstallState(set.srv, CREATED)
           ELSE set.srv

\* onDelete that overrides a final state
DO_onDelete_forced(srv) == DO_setInstallState_unguarded(srv, DELETED)

\* DigitalOceanServer.onDelete
DO_onDelete(srv) == DO_setInstallState(srv, DELETED)

\* DigitalOceanServer.isInstallCompleted
DO_isInstallCompleted(srv) == srv.installCompleted

\* the fields of a new DigitalOceanServer, before pollInstallState runs
NewDigitalOceanServer(dropletInfo) ==
  [installState |-> UNKNOWN,
   listener |-> NoListener,
   dropletInfo |-> dropletInfo,
   installCompleted |-> FALSE,
   trustCalls |-> <<>>,
   apiUrlCalls |-> <<>>,
   notified |-> <<>>]

\* ------------------------------------------------------------ GcpServer
\* GcpServer.installProgress, in tenths
Gcp_installProgress(installState) ==
  CASE installState = UNKNOWN -> 1
    [] installState = CREATED -> 2
    [] installState = BOOTED -> 8
    [] installState = SUCCESS -> 10
    [] OTHER -> 0

\* GcpServer.setInstallState
Gcp_setInstallState(srv, newState) ==
  LET s1 == [srv EXCEPT !.installState = newState]
  IN  IF s1.listener # NoListener
        THEN Notify(s1, Gcp_installProgress(s1.installState))
        ELSE s1

\* GcpServer.onDelete
Gcp_onDelete(srv) == [srv EXCEPT !.installState = DELETED]

\* GcpServer.isInstallCompleted
Gcp_isInstallCompleted(srv) == srv.installState >= SUCCESS

Entry(key, value) == [key |-> key, value |-> value]

\* an answer of getGuestAttributes: with or without queryValue.items
Items(items) == [hasItems |-> TRUE, items |-> items]
NoItems == [hasItems |-> FALSE, items |-> <<>>]

\* the answers getGuestAttributes may give
GuestAttributes ==
  { NoItems,
    Items(<<>>),
    Items(<<Entry("foo", "bar")>>),
    Items(<<Entry("apiUrl", "https://a/")>>),
    Items(<<Entry("apiUrl", "https://a/"), Entry("certSha256", "Rg==")>>),
    Items(<<Entry("apiurl", "https://a/"), Entry("certsha256", "Rg==")>>),
    Items(<<Entry("install-error", "E")>>),
    Items(<<Entry("Install-Error", "E")>>),
    Items(<<Entry("apiUrl", "https://a/"), Entry("certSha256", "Rg=="),
            Entry("install-error", "E")>>) }

RECURSIVE setAll(_, _)
setAll(attributes, result) ==
  IF attributes = <<>> THEN result
  ELSE setAll(Tail(attributes),
              [k \in DOMAIN result \cup {Head(attributes).key} |->
                 IF k = Head(attributes).key
                   THEN Head(attributes).value ELSE result[k]])

\* GcpServer.getOutlineGuestAttributes, given the provider's answer
getOutlineGuestAttributes(guestAttributes) ==
  LET attributes == IF guestAttributes.hasItems
                      THEN guestAttributes.items ELSE <<>>
  IN  setAll(attributes, [k \in {} |-> ""])

\* a loop body that tests install-error before the success keys
PollBody_errorFirst(srv, outlineGuestAttributes) ==
  LET has(key) == key \in DOMAIN outlineGuestAttributes
      s1 == IF DOMAIN outlineGuestAttributes # {} /\ srv.installState < BOOTED
              THEN Gcp_setInstallState(srv, BOOTED) ELSE srv
  IN  IF has("install-error")
        THEN [thrown |-> TRUE, srv |-> Gcp_setInstallState(s1, ERROR)]
      ELSE IF has("apiUrl") /\ has("certSha256")
        THEN [thrown |-> FALSE,
              srv |-> Gcp_setInstallState(
                        [s1 EXCEPT
                           !.trustCalls =
                              Append(@, outlineGuestAttributes["certSha256"]),
                           !.apiUrlCalls =
                              Append(@, outlineGuestAttributes["apiUrl"])],
                        SUCCESS)]
      ELSE [thrown |-> FALSE, srv |-> s1]

\* a loop body that sets ERROR and goes on to sleep instead of throwing
PollBody_noThrow(srv, outlineGuestAttributes) ==
  LET has(key) == key \in DOMAIN outlineGuestAttributes
      s1 == IF DOMAIN outlineGuestAttributes # {} /\ srv.installState < BOOTED
              THEN Gcp_setInstallState(srv, BOOTED) ELSE srv
  IN  IF has("apiUrl") /\ has("certSha256")
        THEN [thrown |-> FALSE,
              srv |-> Gcp_setInstallState(
                        [s1 EXCEPT
                           !.trustCalls =
                              Append(@, outlineGuestAttributes["certSha256"]),
                           !.apiUrlCalls =
                              Append(@, outlineGuestAttributes["apiUrl"])],
                        SUCCESS)]
      ELSE IF has("install-error")
        THEN [thrown |-> FALSE, srv |-> Gcp_setInstallState(s1, ERROR)]
      ELSE [thrown |-> FALSE, srv |-> s1]

\* the body of the loop of GcpServer.waitOnInstall from the fetched
\* attributes to the sleep or the throw
PollBody(srv, outlineGuestAttributes) ==
  LET has(key) == key \in DOMAIN outlineGuestAttributes
      s1 == IF DOMAIN outlineGuestAttributes # {} /\ srv.installState < BOOTED
              THEN Gcp_setInstallState(srv, BOOTED) ELSE srv
  IN  IF has("apiUrl") /\ has("certSha256")
        THEN [thrown |-> FALSE,
              srv |-> Gcp_setInstallState(
                        [s1 EXCEPT
                           !.trustCalls =
                              Append(@, outlineGuestAttributes["certSha256"]),
                           !.apiUrlCalls =
                              Append(@, outlineGuestAttributes["apiUrl"])],
                        SUCCESS)]
      ELSE IF has("install-error")
        THEN [thrown |-> TRUE, srv |-> Gcp_setInstallState(s1, ERROR)]
      ELSE [thrown |-> FALSE, srv |-> s1]

\* GcpHost.delete: how many calls are suspended at each await, how many
\* deleteInstance requests are outstanding, deleteCallback invocations made
NoDeletes ==
  [awaitCompletion |-> 0, awaitDeleteStaticIp |-> 0, deleteInstance |-> 0,
   callbacks |-> 0]

\* the fields of a new GcpServer
NewGcpServer ==
  [installState |-> UNKNOWN,
   listener |-> NoListener,
   trustCalls |-> <<>>,
   apiUrlCalls |-> <<>>,
   notified |-> <<>>]

\* Date.now() - startTimestamp
\* ------------------------------------------------ ShadowboxAccessService
\* `undefined` in the fields server and config
NoServer == 0
NoConfig == 0

\* the port of a config passed to the constructor
GivenConfig == 9

\* the fields of a new ShadowboxAccessService: `server` is the index in
\* `servers` of the restify server, `config` the port of the config;
\* `servers` holds every server created ("created": listen was called,
\* "listening", "closed"), `reserveNewPort` the requests made and answered,
\* `starts` where each start() call is suspended or how it settled, with
\* the server it listens on, `stops` the outcome of the last stop() call
NewShadowboxAccessService(config) ==
  [server |-> NoServer,
   config |-> config,
   servers |-> <<>>,
   reserveNewPort |-> [calls |-> 0, resolved |-> 0],
   starts |-> <<>>,
   stops |-> "none"]

Elapsed == now * TickMs

\* the values of `now` at which Date.now() - startTimestamp >= TIMEOUT_MS
TimedOutTicks == {t \in 0..MaxTicks : t * TickMs >= TIMEOUT_MS}

\* the constructor: pollInstallState evaluates the initial droplet info and
\* starts the refresh interval unless the state is already final
InitDO ==
  /\ accessService = NewShadowboxAccessService(NoConfig)
  /\ provider = "DigitalOcean"
  /\ \E dropletInfo \in DropletInfos :
       doServer = updateInstallState(NewDigitalOceanServer(dropletInfo), 0)
  /\ now = 0
  /\ refreshTimer = IF doServer.installState >= SUCCESS THEN "none" ELSE "active"
  /\ refresh = 0
  /\ doWaiters = <<>>
  /\ doDeletes = [pending |-> 0, callbacks |-> 0]
  /\ gcpServer = NewGcpServer
  /\ completion = "pending"
  /\ gcpWaiters = EmptyBag
  /\ gcpDeletes = NoDeletes

\* ------------------------------------ the DigitalOceanServer constructor
\* the fields are initialised and the constructor is about to call
\* pollInstallState
InitConstruct ==
  /\ accessService = NewShadowboxAccessService(NoConfig)
  /\ provider = "DigitalOcean"
  /\ \E desc \in SnapshotDescs :
       doServer = NewDigitalOceanServer(SnapshotDroplet(desc))
  /\ now = 0
  /\ refreshTimer = "unset"
  /\ refresh = 0
  /\ doWaiters = <<>>
  /\ doDeletes = [pending |-> 0, callbacks |-> 0]
  /\ gcpServer = NewGcpServer
  /\ completion = "pending"
  /\ gcpWaiters = EmptyBag
  /\ gcpDeletes = NoDeletes

\* pollInstallState up to setInterval: the first updateInstallState
DO_pollInstallState ==
  /\ provider = "DigitalOcean"
  /\ refreshTimer = "unset"
  /\ doServer' = updateInstallState(Begin(doServer), 0)
  /\ refreshTimer' = IF doServer'.installState >= SUCCESS
                       THEN "none" ELSE "active"
  /\ UNCHANGED <<provider, accessService, gcpVars, now, refresh, doWaiters, doDeletes>>

SpecConstruct == InitConstruct /\ [][DO_pollInstallState]_vars

\* time passes
DO_Tick ==
  /\ provider = "DigitalOcean"
  /\ now < MaxTicks
  /\ now' = now + 1
  /\ doServer' = Begin(doServer)
  /\ UNCHANGED <<provider, accessService, gcpVars, refreshTimer, refresh, doWaiters, doDeletes>>

\* DigitalOceanServer.waitOnInstall: a new promise and its 100 ms interval
DO_waitOnInstall ==
  /\ provider = "DigitalOcean"
  /\ Len(doWaiters) < MaxWaiters
  /\ doWaiters' = Append(doWaiters,
                    [timer |-> TRUE, outcome |-> "pending", settles |-> 0])
  /\ doServer' = Begin(doServer)
  /\ UNCHANGED <<provider, accessService, gcpVars, now, refreshTimer, refresh, doDeletes>>

\* the outcome the 100 ms callback settles the promise with
SettleOutcome(installState) ==
  CASE installState = SUCCESS -> "fulfilled"
    [] installState = ERROR -> "ServerInstallFailedError"
    [] installState = DELETED -> "DeletedServerError"
    [] OTHER -> "pending"

\* the interval callback without clearInterval
WaitCheck_noClear(waiter, installState) ==
  IF installState < SUCCESS THEN waiter
  ELSE [waiter EXCEPT
          !.outcome = IF @ = "pending" THEN SettleOutcome(installState) ELSE @,
          !.settles = @ + 1]

\* one run of the 100 ms interval callback of waitOnInstall
WaitCheck(waiter, installState) ==
  IF installState < SUCCESS THEN waiter
  ELSE [waiter EXCEPT
          !.timer = FALSE,
          !.outcome = IF @ = "pending" THEN SettleOutcome(installState) ELSE @,
          !.settles = @ + 1]

DO_WaitCheck(w) ==
  /\ provider = "DigitalOcean"
  /\ doWaiters[w].timer
  /\ doWaiters' = [doWaiters EXCEPT ![w] = WaitCheck(@, doServer.installState)]
  /\ doServer' = Begin(doServer)
  /\ UNCHANGED <<provider, accessService, gcpVars, now, refreshTimer, refresh, doDeletes>>

\* the 3 s interval callback up to its await: stop if final, else request
\* the droplet
DO_RefreshFire ==
  /\ provider = "DigitalOcean"
  /\ refreshTimer = "active"
  /\ doServer' = Begin(doServer)
  /\ IF doServer.installState >= SUCCESS
       THEN /\ refreshTimer' = "cleared"
            /\ UNCHANGED refresh
       ELSE /\ refresh < MaxInflight
            /\ refresh' = refresh + 1
            /\ UNCHANGED refreshTimer
  /\ UNCHANGED <<provider, accessService, gcpVars, now, doWaiters, doDeletes>>

\* DigitalOceanServer.refreshDropletInfo after getDroplet answered
refreshDropletInfo(srv, newDropletInfo) ==
  [srv EXCEPT !.dropletInfo = newDropletInfo]

\* getDroplet answered: refreshDropletInfo replaces the cache and the
\* interval callback goes on to updateInstallState; the two continuations
\* run back to back in the microtask queue
DO_RefreshDone(newDropletInfo) ==
  /\ provider = "DigitalOcean"
  /\ refresh > 0
  /\ refresh' = refresh - 1
  /\ doServer' = updateInstallState(
                   refreshDropletInfo(Begin(doServer), newDropletInfo), Elapsed)
  /\ refreshTimer' = IF doServer'.installState >= SUCCESS
                       THEN "cleared" ELSE refreshTimer
  /\ UNCHANGED <<provider, accessService, gcpVars, now, doWaiters, doDeletes>>

\* a catch block that only logs and leaves the interval running
DO_RefreshFailed_retry ==
  /\ provider = "DigitalOcean"
  /\ refresh > 0
  /\ refresh' = refresh - 1
  /\ doServer' = Begin(doServer)
  /\ UNCHANGED <<provider, accessService, gcpVars, now, refreshTimer, doWaiters, doDeletes>>

\* the interval callback's catch block: getDroplet failed
DO_RefreshFailed ==
  /\ provider = "DigitalOcean"
  /\ refresh > 0
  /\ refresh' = refresh - 1
  /\ doServer' = DO_setInstallState(Begin(doServer), ERROR)
  /\ refreshTimer' = "cleared"
  /\ UNCHANGED <<provider, accessService, gcpVars, now, doWaiters, doDeletes>>

\* setProgressListener that stores the listener without calling it
DO_setProgressListener_noReplay(listener) ==
  /\ provider = "DigitalOcean"
  /\ doServer' = [Begin(doServer) EXCEPT !.listener = listener]
  /\ UNCHANGED <<provider, accessService, gcpVars, now, refreshTimer, refresh, doWaiters, doDeletes>>

\* setProgressListener that keeps a listener registered earlier
DO_setProgressListener_keepFirst(listener) ==
  /\ provider = "DigitalOcean"
  /\ doServer' =
       [Begin(doServer) EXCEPT
          !.listener = IF @ = NoListener THEN listener ELSE @,
          !.notified =
             <<<<listener, DO_installProgress(doServer.installState)>>>>]
  /\ UNCHANGED <<provider, accessService, gcpVars, now, refreshTimer, refresh, doWaiters, doDeletes>>

\* DigitalOceanServer.setProgressListener
DO_setProgressListener(listener) ==
  /\ provider = "DigitalOcean"
  /\ doServer' = Notify([Begin(doServer) EXCEPT !.listener = listener],
                        DO_installProgress(doServer.installState))
  /\ UNCHANGED <<provider, accessService, gcpVars, now, refreshTimer, refresh, doWaiters, doDeletes>>

\* DigitalOceanHost.delete: deleteDroplet is requested
DO_delete ==
  /\ provider = "DigitalOcean"
  /\ doDeletes.pending + doDeletes.callbacks < MaxDeletes
  /\ doDeletes' = [doDeletes EXCEPT !.pending = @ + 1]
  /\ doServer' = Begin(doServer)
  /\ UNCHANGED <<provider, accessService, gcpVars, now, refreshTimer, refresh, doWaiters>>

\* deleteDroplet succeeded: the then-callback invokes deleteCallback
DO_DeleteDone ==
  /\ provider = "DigitalOcean"
  /\ doDeletes.pending > 0
  /\ doDeletes' = [doDeletes EXCEPT !.pending = @ - 1, !.callbacks = @ + 1]
  /\ doServer' = DO_onDelete(Begin(doServer))
  /\ UNCHANGED <<provider, accessService, gcpVars, now, refreshTimer, refresh, doWaiters>>

\* a delete that invokes the callback whether deleteDroplet succeeded or not
DO_DeleteFailed_finally ==
  /\ provider = "DigitalOcean"
  /\ doDeletes.pending > 0
  /\ doDeletes' = [doDeletes EXCEPT !.pending = @ - 1, !.callbacks = @ + 1]
  /\ doServer' = DO_onDelete(Begin(doServer))
  /\ UNCHANGED <<provider, accessService, gcpVars, now, refreshTimer, refresh, doWaiters>>

\* deleteDroplet failed: delete() rejects, the callback is not invoked
DO_DeleteFailed ==
  /\ provider = "DigitalOcean"
  /\ doDeletes.pending > 0
  /\ doDeletes' = [doDeletes EXCEPT !.pending = @ - 1]
  /\ doServer' = Begin(doServer)
  /\ UNCHANGED <<provider, accessService, gcpVars, now, refreshTimer, refresh, doWaiters>>

NextDO ==
  \/ DO_Tick
  \/ DO_waitOnInstall
  \/ \E w \in 1..MaxWaiters : w <= Len(doWaiters) /\ DO_WaitCheck(w)
  \/ DO_RefreshFire
  \/ \E newDropletInfo \in DropletInfos : DO_RefreshDone(newDropletInfo)
  \/ DO_RefreshFailed
  \/ \E listener \in Listeners : DO_setProgressListener(listener)
  \/ DO_delete
  \/ DO_DeleteDone
  \/ DO_DeleteFailed

SpecDO == InitDO /\ [][NextDO]_vars

\* setInterval keeps firing the 100 ms callbacks of the waitOnInstall calls
\* whose interval is not cleared
FairSpecDO ==
  SpecDO /\ WF_vars(\E w \in 1..Len(doWaiters) : DO_WaitCheck(w))

\* setInterval keeps firing the 3 s refresh callback and the 100 ms
\* callbacks until they are cleared; nothing makes getDroplet answer
FairTimersDO ==
  FairSpecDO /\ WF_vars(DO_RefreshFire)

\* as FairTimersDO, and every getDroplet request is answered or fails
FairAnswersDO ==
  FairTimersDO
    /\ WF_vars((\E newDropletInfo \in DropletInfos :
                  DO_RefreshDone(newDropletInfo)) \/ DO_RefreshFailed)

\* where an unsettled GcpServer.waitOnInstall call is suspended
Unsettled == {"awaitCompletion", "fetching", "sleeping"}

\* a waitOnInstall call is made before resolution: no earlier call has
\* settled
Unresolved(waiters) ==
  \A waiter \in BagToSet(waiters) : waiter.outcome \in Unsettled

\* one waitOnInstall call moves on to its next await, or settles
Proceed(waiters, waiter, outcome) ==
  (waiters (-) SetToBag({waiter}))
    (+) SetToBag({[waiter EXCEPT !.outcome = outcome]})

\* ---------------------------------------------------- GcpServer actions
InitGcp ==
  /\ accessService = NewShadowboxAccessService(NoConfig)
  /\ provider = "Gcp"
  /\ gcpServer = NewGcpServer
  /\ completion = "pending"
  /\ gcpWaiters = EmptyBag
  /\ gcpDeletes = NoDeletes
  /\ doServer = NewDigitalOceanServer(Droplet("new", <<>>, NoNetworks))
  /\ now = 0
  /\ refreshTimer = "none"
  /\ refresh = 0
  /\ doWaiters = <<>>
  /\ doDeletes = [pending |-> 0, callbacks |-> 0]

\* the provider confirms, or fails, the creation of the instance
Gcp_CompletionSettles(outcome) ==
  /\ provider = "Gcp"
  /\ completion = "pending"
  /\ completion' = outcome
  /\ gcpServer' = Begin(gcpServer)
  /\ UNCHANGED <<provider, accessService, doVars, gcpWaiters, gcpDeletes>>

\* GcpServer.waitOnInstall is called and suspends on `await this.completion`
Gcp_waitOnInstall ==
  /\ provider = "Gcp"
  /\ BagCardinality(gcpWaiters) < MaxWaiters
  /\ gcpWaiters' = gcpWaiters (+) SetToBag({[outcome |-> "awaitCompletion",
                                             early |-> Unresolved(gcpWaiters)]})
  /\ gcpServer' = Begin(gcpServer)
  /\ UNCHANGED <<provider, accessService, doVars, completion, gcpDeletes>>

\* waitOnInstall that does not wait for the creation promise
Gcp_WaitResume_noAwait(waiter) ==
  /\ provider = "Gcp"
  /\ waiter.outcome = "awaitCompletion"
  /\ gcpServer' = Gcp_setInstallState(Begin(gcpServer), CREATED)
  /\ gcpWaiters' = Proceed(gcpWaiters, waiter,
       IF gcpServer'.installState < SUCCESS THEN "fetching" ELSE "fulfilled")
  /\ UNCHANGED <<provider, accessService, doVars, completion, gcpDeletes>>

\* waitOnInstall resumes after the creation promise: CREATED, the first
\* loop test and the first fetch; or the rejection is passed on
Gcp_WaitResume(waiter) ==
  /\ provider = "Gcp"
  /\ waiter.outcome = "awaitCompletion"
  /\ completion # "pending"
  /\ IF completion = "rejected"
       THEN /\ gcpWaiters' = Proceed(gcpWaiters, waiter, "CreationError")
            /\ gcpServer' = Begin(gcpServer)
       ELSE /\ gcpServer' = Gcp_setInstallState(Begin(gcpServer), CREATED)
            /\ gcpWaiters' = Proceed(gcpWaiters, waiter,
                 IF gcpServer'.installState < SUCCESS
                   THEN "fetching" ELSE "fulfilled")
  /\ UNCHANGED <<provider, accessService, doVars, completion, gcpDeletes>>

\* getGuestAttributes answered: the loop body runs up to the sleep
Gcp_Poll(waiter, guestAttributes) ==
  /\ provider = "Gcp"
  /\ waiter.outcome = "fetching"
  /\ LET r == PollBody(Begin(gcpServer),
                       getOutlineGuestAttributes(guestAttributes))
     IN  /\ gcpServer' = r.srv
         /\ gcpWaiters' = Proceed(gcpWaiters, waiter,
              IF r.thrown THEN "ServerInstallFailedError" ELSE "sleeping")
  /\ UNCHANGED <<provider, accessService, doVars, completion, gcpDeletes>>

\* getGuestAttributes failed: the error leaves waitOnInstall
Gcp_FetchFailed(waiter) ==
  /\ provider = "Gcp"
  /\ waiter.outcome = "fetching"
  /\ gcpWaiters' = Proceed(gcpWaiters, waiter, "NetworkError")
  /\ gcpServer' = Begin(gcpServer)
  /\ UNCHANGED <<provider, accessService, doVars, completion, gcpDeletes>>

\* the sleep is over: the loop test, then the next fetch or the return
Gcp_Wake(waiter) ==
  /\ provider = "Gcp"
  /\ waiter.outcome = "sleeping"
  /\ gcpWaiters' = Proceed(gcpWaiters, waiter,
       IF gcpServer.installState < SUCCESS THEN "fetching" ELSE "fulfilled")
  /\ gcpServer' = Begin(gcpServer)
  /\ UNCHANGED <<provider, accessService, doVars, completion, gcpDeletes>>

\* GcpServer.setProgressListener
Gcp_setProgressListener(listener) ==
  /\ provider = "Gcp"
  /\ gcpServer' = Notify([Begin(gcpServer) EXCEPT !.listener = listener],
                         Gcp_installProgress(gcpServer.installState))
  /\ UNCHANGED <<provider, accessService, doVars, completion, gcpWaiters, gcpDeletes>>

\* GcpHost.delete is called and suspends on `await this.completion`
Gcp_delete ==
  /\ provider = "Gcp"
  /\ gcpDeletes.awaitCompletion + gcpDeletes.awaitDeleteStaticIp
       + gcpDeletes.callbacks < MaxDeletes
  /\ gcpDeletes' = [gcpDeletes EXCEPT !.awaitCompletion = @ + 1]
  /\ gcpServer' = Begin(gcpServer)
  /\ UNCHANGED <<provider, accessService, doVars, completion, gcpWaiters>>

\* delete that does not wait for the creation promise
Gcp_DeleteResume_noAwait ==
  /\ provider = "Gcp"
  /\ gcpDeletes.awaitCompletion > 0
  /\ gcpDeletes' = [gcpDeletes EXCEPT !.awaitCompletion = @ - 1,
                                      !.awaitDeleteStaticIp = @ + 1]
  /\ gcpServer' = Begin(gcpServer)
  /\ UNCHANGED <<provider, accessService, doVars, completion, gcpWaiters>>

\* delete resumes after the creation promise and requests deleteStaticIp;
\* if the creation failed, delete() rejects
Gcp_DeleteResume ==
  /\ provider = "Gcp"
  /\ gcpDeletes.awaitCompletion > 0
  /\ completion # "pending"
  /\ gcpDeletes' =
       IF completion = "rejected"
         THEN [gcpDeletes EXCEPT !.awaitCompletion = @ - 1]
         ELSE [gcpDeletes EXCEPT !.awaitCompletion = @ - 1,
                                 !.awaitDeleteStaticIp = @ + 1]
  /\ gcpServer' = Begin(gcpServer)
  /\ UNCHANGED <<provider, accessService, doVars, completion, gcpWaiters>>

\* deleteStaticIp succeeded: deleteInstance is requested without being
\* awaited, and the delete callback runs
Gcp_DeleteStaticIpDone ==
  /\ provider = "Gcp"
  /\ gcpDeletes.awaitDeleteStaticIp > 0
  /\ gcpDeletes' = [gcpDeletes EXCEPT !.awaitDeleteStaticIp = @ - 1,
                                      !.deleteInstance = @ + 1,
                                      !.callbacks = @ + 1]
  /\ gcpServer' = Gcp_onDelete(Begin(gcpServer))
  /\ UNCHANGED <<provider, accessService, doVars, completion, gcpWaiters>>

\* deleteStaticIp failed: delete() rejects
Gcp_DeleteStaticIpFailed ==
  /\ provider = "Gcp"
  /\ gcpDeletes.awaitDeleteStaticIp > 0
  /\ gcpDeletes' = [gcpDeletes EXCEPT !.awaitDeleteStaticIp = @ - 1]
  /\ gcpServer' = Begin(gcpServer)
  /\ UNCHANGED <<provider, accessService, doVars, completion, gcpWaiters>>

\* the provider finishes, or fails, a deleteInstance request; nobody waits
\* for it
Gcp_DeleteInstanceSettles ==
  /\ provider = "Gcp"
  /\ gcpDeletes.deleteInstance > 0
  /\ gcpDeletes' = [gcpDeletes EXCEPT !.deleteInstance = @ - 1]
  /\ gcpServer' = Begin(gcpServer)
  /\ UNCHANGED <<provider, accessService, doVars, completion, gcpWaiters>>

NextGcp ==
  \/ \E outcome \in {"resolved", "rejected"} : Gcp_CompletionSettles(outcome)
  \/ Gcp_waitOnInstall
  \/ \E waiter \in BagToSet(gcpWaiters) : Gcp_WaitResume(waiter)
  \/ \E waiter \in BagToSet(gcpWaiters), guestAttributes \in GuestAttributes :
       Gcp_Poll(waiter, guestAttributes)
  \/ \E waiter \in BagToSet(gcpWaiters) : Gcp_FetchFailed(waiter)
  \/ \E waiter \in BagToSet(gcpWaiters) : Gcp_Wake(waiter)
  \/ \E listener \in Listeners : Gcp_setProgressListener(listener)
  \/ Gcp_delete
  \/ Gcp_DeleteResume
  \/ Gcp_DeleteStaticIpDone
  \/ Gcp_DeleteStaticIpFailed
  \/ Gcp_DeleteInstanceSettles

SpecGcp == InitGcp /\ [][NextGcp]_vars

\* ------------------------------------------------------- either provider
Init == InitDO \/ InitGcp
Next == NextDO \/ NextGcp
Spec == Init /\ [][Next]_vars

\* ---------------------------------------- ShadowboxAccessService actions
InitAccess ==
  /\ provider = "ShadowboxAccessService"
  /\ \E config \in {NoConfig, GivenConfig} :
       accessService = NewShadowboxAccessService(config)
  /\ doServer = NewDigitalOceanServer(Droplet("new", <<>>, NoNetworks))
  /\ now = 0
  /\ refreshTimer = "unset"
  /\ refresh = 0
  /\ doWaiters = <<>>
  /\ doDeletes = [pending |-> 0, callbacks |-> 0]
  /\ gcpServer = NewGcpServer
  /\ completion = "pending"
  /\ gcpWaiters = EmptyBag
  /\ gcpDeletes = NoDeletes

StartCall(at, server) == [at |-> at, server |-> server]

\* start() from restify.createServer to the promise around server.listen:
\* the new server replaces this.server, and the call waits for the listen
\* callback
createServer(service, call) ==
  LET server == Len(service.servers) + 1
  IN  [service EXCEPT
         !.servers = Append(@, "created"),
         !.server = server,
         !.starts = IF call > Len(@)
                      THEN Append(@, StartCall("listen", server))
                      ELSE [@ EXCEPT ![call] = StartCall("listen", server)]]

\* start() is called: it throws if this.server is set, suspends in
\* generateConfig on reserveNewPort if there is no config, and otherwise
\* creates the server
Access_start ==
  /\ provider = "ShadowboxAccessService"
  /\ Len(accessService.starts) < MaxStarts
  /\ accessService' =
       IF accessService.server # NoServer
         THEN [accessService EXCEPT
                 !.starts = Append(@, StartCall("already started", NoServer))]
       ELSE IF accessService.config = NoConfig
         THEN [accessService EXCEPT
                 !.starts = Append(@, StartCall("generateConfig", NoServer)),
                 !.reserveNewPort.calls = @ + 1]
       ELSE createServer(accessService, Len(accessService.starts) + 1)
  /\ UNCHANGED <<provider, doVars, gcpVars>>

\* reserveNewPort answered: generateConfig returns, start() stores the
\* config and creates the server
Access_PortReserved(call) ==
  /\ provider = "ShadowboxAccessService"
  /\ call \in DOMAIN accessService.starts
  /\ accessService.starts[call].at = "generateConfig"
  /\ LET port == accessService.reserveNewPort.resolved + 1
     IN  accessService' =
           createServer([accessService EXCEPT
                           !.reserveNewPort.resolved = port,
                           !.config = port], call)
  /\ UNCHANGED <<provider, doVars, gcpVars>>

\* reserveNewPort failed: start() rejects with its error
Access_PortFailed(call) ==
  /\ provider = "ShadowboxAccessService"
  /\ call \in DOMAIN accessService.starts
  /\ accessService.starts[call].at = "generateConfig"
  /\ accessService' =
       [accessService EXCEPT !.starts[call] = StartCall("port error", NoServer)]
  /\ UNCHANGED <<provider, doVars, gcpVars>>

\* the listen callback of a server that was not closed: start() resolves
Access_Listening(call) ==
  /\ provider = "ShadowboxAccessService"
  /\ call \in DOMAIN accessService.starts
  /\ accessService.starts[call].at = "listen"
  /\ accessService.servers[accessService.starts[call].server] = "created"
  /\ accessService' =
       [accessService EXCEPT
          !.servers[accessService.starts[call].server] = "listening",
          !.starts[call].at = "resolved"]
  /\ UNCHANGED <<provider, doVars, gcpVars>>

\* stop(): throws if this.server is not set, else closes it and forgets the
\* server and the config
Access_stop ==
  /\ provider = "ShadowboxAccessService"
  /\ accessService' =
       IF accessService.server = NoServer
         THEN [accessService EXCEPT !.stops = "not started"]
         ELSE [accessService EXCEPT
                 !.servers[accessService.server] = "closed",
                 !.server = NoServer,
                 !.config = NoConfig,
                 !.stops = "stopped"]
  /\ UNCHANGED <<provider, doVars, gcpVars>>

NextAccess ==
  \/ Access_start
  \/ \E call \in 1..MaxStarts : Access_PortReserved(call)
  \/ \E call \in 1..MaxStarts : Access_PortFailed(call)
  \/ \E call \in 1..MaxStarts : Access_Listening(call)
  \/ Access_stop

SpecAccess == InitAccess /\ [][NextAccess]_vars

\* ================================================================ claims
Final(srv) == srv.installState >= SUCCESS

\* C1: in the DigitalOcean monitor a final install state (SUCCESS, ERROR or
\* DELETED) is never changed by any later step: refresh results, refresh
\* failures, the timeout or the delete callback.
C1_FinalStateImmutable ==
  [][Final(doServer) => doServer'.installState = doServer.installState]_vars

\* SUCCESS has survived the timeout, a delete callback and a completed
\* refresh that put an error tag into the cache
C1_Witness ==
  /\ doServer.installState = SUCCESS
  /\ Truthy(getTagMap(doServer.dropletInfo), INSTALL_ERROR_TAG)
  /\ refresh = 0
  /\ refreshTimer = "cleared"
  /\ Elapsed >= TIMEOUT_MS
  /\ doDeletes.callbacks > 0
  /\ doDeletes.pending = 0

\* C2: in the GCP monitor a final install state is never changed by any
\* later step of the polling loops or of the delete callback.
C2_GcpFinalStateImmutable ==
  [][Final(gcpServer) => gcpServer'.installState = gcpServer.installState]_vars

\* C3: in both monitors the install state never decreases while it is not
\* final; in particular it never goes from BOOTED back to CREATED.
C3_Monotone ==
  [][/\ ~Final(doServer) => doServer'.installState >= doServer.installState
     /\ ~Final(gcpServer) => gcpServer'.installState >= gcpServer.installState
    ]_vars

\* C4: each DigitalOceanServer.waitOnInstall call settles exactly once, and
\* only in a final state: fulfilled iff SUCCESS, ServerInstallFailedError
\* iff ERROR, DeletedServerError iff DELETED; it is pending while the state
\* is UNKNOWN, CREATED or BOOTED, and once the state is final every call
\* made so far settles.
C4_Outcomes ==
  \A w \in 1..Len(doWaiters) :
    LET waiter == doWaiters[w]
        settled == waiter.settles = 1
    IN  /\ waiter.settles <= 1
        /\ settled <=> waiter.outcome # "pending"
        /\ settled => Final(doServer)
        /\ waiter.outcome = "fulfilled"
             <=> settled /\ doServer.installState = SUCCESS
        /\ waiter.outcome = "ServerInstallFailedError"
             <=> settled /\ doServer.installState = ERROR
        /\ waiter.outcome = "DeletedServerError"
             <=> settled /\ doServer.installState = DELETED

C4_AllSettled == \A w \in 1..Len(doWaiters) : doWaiters[w].settles = 1

C4_SettlesOnce ==
  /\ []C4_Outcomes
  /\ Final(doServer) ~> C4_AllSettled

\* two calls have settled, with the deleted error, and their intervals are
\* cleared
C4_Witness ==
  /\ Len(doWaiters) = 2
  /\ \A w \in 1..2 : /\ doWaiters[w].outcome = "DeletedServerError"
                     /\ doWaiters[w].settles = 1
                     /\ ~doWaiters[w].timer

\* C5: a GcpServer.waitOnInstall call never fulfils for a server that was
\* deleted before it reached SUCCESS (the state is DELETED, and neither
\* SUCCESS nor ERROR was ever set).
C5_DeletedNeverFulfils ==
  (/\ gcpServer.installState = DELETED
   /\ gcpServer.trustCalls = <<>>
   /\ \A waiter \in BagToSet(gcpWaiters) :
        waiter.outcome # "ServerInstallFailedError")
    => \A waiter \in BagToSet(gcpWaiters) : waiter.outcome # "fulfilled"

\* the step is a run of DigitalOceanServer.onDelete
DO_DeleteCallback == doDeletes'.callbacks = doDeletes.callbacks + 1

\* the step is a run of GcpServer.onDelete
Gcp_DeleteCallback == gcpDeletes'.callbacks = gcpDeletes.callbacks + 1

DO_Pending == \E w \in 1..Len(doWaiters) : doWaiters[w].outcome = "pending"

GcpSettledOnState(waiter) ==
  waiter.outcome \in {"fulfilled", "ServerInstallFailedError"}

\* C8: two waitOnInstall calls made before any call has settled end with
\* the same outcome: both fulfilled, or both rejected with the same error
\* (stated for GcpServer over the calls that ended on the install state).
C8_SameOutcome ==
  /\ \A w1, w2 \in BagToSet(gcpWaiters) :
       (/\ w1.early /\ w2.early
        /\ GcpSettledOnState(w1) /\ GcpSettledOnState(w2))
         => w1.outcome = w2.outcome
  /\ \A w1, w2 \in 1..Len(doWaiters) :
       (doWaiters[w1].outcome # "pending" /\ doWaiters[w2].outcome # "pending")
         => doWaiters[w1].outcome = doWaiters[w2].outcome

\* C9: DigitalOceanServer calls trustCertificate and setManagementApiUrl
\* exactly once if it reaches SUCCESS, in the evaluation that sets SUCCESS
\* and with the values decoded from the tags then cached, and never if it
\* does not reach SUCCESS.
C9_Calls ==
  /\ Len(doServer.trustCalls) = IF doServer.installState = SUCCESS THEN 1 ELSE 0
  /\ Len(doServer.apiUrlCalls) = Len(doServer.trustCalls)

C9_TrustOnceOnSuccess ==
  /\ []C9_Calls
  /\ [][doServer'.trustCalls # doServer.trustCalls =>
          /\ doServer.installState < SUCCESS
          /\ doServer'.installState = SUCCESS
          /\ doServer'.trustCalls =
               <<getCertificateFingerprint(doServer'.dropletInfo).value>>
          /\ doServer'.apiUrlCalls =
               <<getManagementApiAddress(doServer'.dropletInfo).value>>
       ]_vars

\* SUCCESS was reached by a refresh, the fingerprint was trusted once, and a
\* later refresh and a delete callback have run
C9_Witness ==
  /\ doServer.installState = SUCCESS
  /\ doServer.trustCalls = <<"Rg==">>
  /\ Len(doServer.apiUrlCalls) = 1
  /\ ~Truthy(getTagMap(doServer.dropletInfo), CERTIFICATE_FINGERPRINT_TAG)
  /\ refresh = 0
  /\ doDeletes.callbacks > 0

\* C10: GcpServer calls trustCertificate and setManagementApiUrl at most
\* once each.
C10_WriteOnce ==
  /\ Len(gcpServer.trustCalls) <= 1
  /\ Len(gcpServer.apiUrlCalls) <= 1

\* C11: once the time since construction has reached the timeout and the
\* state is not final, the state eventually becomes ERROR (or DELETED, if
\* the server is deleted meanwhile), also when no getDroplet request is ever
\* answered.
C11_TimeoutFires ==
  (now \in TimedOutTicks /\ ~Final(doServer))
    ~> (doServer.installState \in {ERROR, DELETED})

\* every waitOnInstall call made so far is rejected with the install error
C12_AllRejected ==
  \A w \in 1..Len(doWaiters) :
    doWaiters[w].outcome = "ServerInstallFailedError"

\* C12: a getDroplet answer without an error tag moves the state to ERROR
\* only if the timeout has elapsed, however many answers came before; and
\* once the timeout has elapsed in a state that is not final, and getDroplet
\* keeps answering, the state becomes ERROR and the waitOnInstall calls are
\* rejected with ServerInstallFailedError (unless the server is deleted).
C12_TimeoutDeterminism ==
  /\ [][(/\ ~Final(doServer)
         /\ doServer'.installState = ERROR
         /\ \E newDropletInfo \in DropletInfos :
              /\ ~Truthy(getTagMap(newDropletInfo), INSTALL_ERROR_TAG)
              /\ DO_RefreshDone(newDropletInfo))
          => Elapsed >= TIMEOUT_MS]_vars
  /\ (now \in TimedOutTicks /\ ~Final(doServer))
       ~> \/ doServer.installState = DELETED
          \/ doServer.installState = ERROR /\ C12_AllRejected

\* ERROR by timeout: no error tag is cached, nothing was deleted, and a call
\* was rejected
C12_Witness ==
  /\ doServer.installState = ERROR
  /\ Elapsed >= TIMEOUT_MS
  /\ ~Truthy(getTagMap(doServer.dropletInfo), INSTALL_ERROR_TAG)
  /\ doServer.dropletInfo.status = "active"
  /\ doDeletes = [pending |-> 0, callbacks |-> 0]
  /\ refresh = 0
  /\ Len(doWaiters) > 0
  /\ C12_AllRejected

C14_FetchErrorNotEscalated ==
  \A waiter \in BagToSet(gcpWaiters) : waiter.outcome # "NetworkError"

\* the getGuestAttributes requests outstanding
GcpFetching(waiters) ==
  LET fetching == {waiter \in BagToSet(waiters) : waiter.outcome = "fetching"}
  IN  BagCardinality([waiter \in fetching |-> waiters[waiter]])

\* C15: from a final install state no step issues a provider fetch: no new
\* getDroplet request (DigitalOcean) and no new getGuestAttributes request
\* (GCP).
C15_NoFetchOnceFinal ==
  [][/\ Final(doServer) => refresh' <= refresh
     /\ Final(gcpServer) => GcpFetching(gcpWaiters') <= GcpFetching(gcpWaiters)
    ]_vars

\* C16: GcpHost.delete makes no provider call before the creation promise
\* has resolved, and issues deleteInstance only in the step in which one of
\* its deleteStaticIp requests completes; while the creation is pending the
\* delete calls stay suspended.
C16_DeleteOrdering ==
  /\ [](completion # "resolved" =>
          /\ gcpDeletes.awaitDeleteStaticIp = 0
          /\ gcpDeletes.deleteInstance = 0
          /\ gcpDeletes.callbacks = 0)
  /\ [][/\ gcpDeletes'.deleteInstance > gcpDeletes.deleteInstance =>
             /\ completion = "resolved"
             /\ gcpDeletes'.deleteInstance = gcpDeletes.deleteInstance + 1
             /\ gcpDeletes'.awaitDeleteStaticIp =
                  gcpDeletes.awaitDeleteStaticIp - 1
        /\ completion' = "pending" =>
             gcpDeletes'.awaitCompletion >= gcpDeletes.awaitCompletion
       ]_vars

\* one delete has released the address and requested deleteInstance while
\* another waits for its deleteStaticIp
C16_Witness ==
  /\ completion = "resolved"
  /\ gcpDeletes.deleteInstance = 1
  /\ gcpDeletes.callbacks = 1
  /\ gcpDeletes.awaitDeleteStaticIp = 1

\* C17: the delete callback runs in the step in which the provider's
\* instance deletion (deleteDroplet, deleteInstance) completes.
C17_DeletedAfterConfirmed ==
  [][/\ DO_DeleteCallback => doDeletes'.pending = doDeletes.pending - 1
     /\ Gcp_DeleteCallback =>
          gcpDeletes'.deleteInstance = gcpDeletes.deleteInstance - 1
    ]_vars

\* C18: setProgressListener stores the listener and calls it exactly once,
\* with the progress of the install state at the time of the call; it does
\* not change the state.
C18_ListenerReplay ==
  [][\A listener \in Listeners :
       /\ DO_setProgressListener(listener) =>
            /\ doServer'.listener = listener
            /\ doServer'.installState = doServer.installState
            /\ doServer'.notified =
                 <<<<listener, DO_installProgress(doServer.installState)>>>>
       /\ Gcp_setProgressListener(listener) =>
            /\ gcpServer'.listener = listener
            /\ gcpServer'.installState = gcpServer.installState
            /\ gcpServer'.notified =
                 <<<<listener, Gcp_installProgress(gcpServer.installState)>>>>
    ]_vars

\* a listener registered after the server was deleted was called once, with
\* the progress of DELETED
C18_Witness ==
  /\ gcpServer.installState = DELETED
  /\ gcpServer.listener = 1
  /\ gcpServer.notified = <<<<1, Gcp_installProgress(DELETED)>>>>

\* the last call made to a listener in this step
LastNotified(srv) == srv.notified[Len(srv.notified)]

\* C19: a step that changes the install state while a listener is
\* registered calls the listener, last with the progress of the new state.
C19_EveryChangeNotified ==
  [][/\ (/\ doServer.listener # NoListener
         /\ doServer'.installState # doServer.installState)
          => /\ doServer'.notified # <<>>
             /\ LastNotified(doServer') =
                  <<doServer.listener,
                    DO_installProgress(doServer'.installState)>>
     /\ (/\ gcpServer.listener # NoListener
         /\ gcpServer'.installState # gcpServer.installState)
          => /\ gcpServer'.notified # <<>>
             /\ LastNotified(gcpServer') =
                  <<gcpServer.listener,
                    Gcp_installProgress(gcpServer'.installState)>>
    ]_vars

\* C20: every listener call a step makes goes to the listener registered
\* last.
C20_LastListenerWins ==
  /\ \A i \in DOMAIN doServer.notified :
       doServer.notified[i][1] = doServer.listener
  /\ \A i \in DOMAIN gcpServer.notified :
       gcpServer.notified[i][1] = gcpServer.listener

\* listener 2 is registered and one step called it for two state changes,
\* BOOTED and SUCCESS
C20_Witness ==
  /\ gcpServer.listener = 2
  /\ gcpServer.notified = <<<<2, Gcp_installProgress(BOOTED)>>,
                            <<2, Gcp_installProgress(SUCCESS)>>>>

\* the progress tables as the specification gives them, in tenths, for
\* UNKNOWN, CREATED, BOOTED, SUCCESS, ERROR, DELETED
C21_DigitalOceanTable == <<1, 5, 6, 10, 0, 0>>
C21_GcpTable == <<1, 2, 8, 10, 0, 0>>

\* C21: every value delivered to a listener is a value of the provider's
\* table, and the value delivered last in a step is the table's value for
\* the install state the step ends in.
C21_ProgressTable ==
  /\ \A i \in DOMAIN doServer.notified :
       \E installState \in InstallStates :
         doServer.notified[i][2] = C21_DigitalOceanTable[installState + 1]
  /\ doServer.notified # <<>> =>
       LastNotified(doServer)[2] =
         C21_DigitalOceanTable[doServer.installState + 1]
  /\ \A i \in DOMAIN gcpServer.notified :
       \E installState \in InstallStates :
         gcpServer.notified[i][2] = C21_GcpTable[installState + 1]
  /\ gcpServer.notified # <<>> =>
       LastNotified(gcpServer)[2] = C21_GcpTable[gcpServer.installState + 1]

\* a DigitalOcean listener was told 0.6 in state BOOTED
C21_Witness ==
  /\ doServer.installState = BOOTED
  /\ doServer.listener = 1
  /\ doServer.notified = <<<<1, 6>>>>

\* the values a step delivers do not decrease
NonDecreasing(notified) ==
  \A i \in 1..(Len(notified) - 1) : notified[i + 1][2] >= notified[i][2]

\* C22: the values delivered to a registered listener never decrease
\* (stated for the deliveries made by steps that end in a state that is not
\* final, where the previous delivery was the progress of the previous
\* state).
C22_ProgressMonotone ==
  [][/\ (/\ doServer.listener # NoListener
         /\ doServer'.listener = doServer.listener
         /\ doServer'.notified # <<>>
         /\ ~Final(doServer'))
          => /\ doServer'.notified[1][2] >=
                  DO_installProgress(doServer.installState)
             /\ NonDecreasing(doServer'.notified)
     /\ (/\ gcpServer.listener # NoListener
         /\ gcpServer'.listener = gcpServer.listener
         /\ gcpServer'.notified # <<>>
         /\ ~Final(gcpServer) /\ ~Final(gcpServer'))
          => /\ gcpServer'.notified[1][2] >=
                  Gcp_installProgress(gcpServer.installState)
             /\ NonDecreasing(gcpServer'.notified)
    ]_vars

\* C23: isInstallCompleted() is true exactly when the install state is
\* SUCCESS, ERROR or DELETED.
C23_InstallCompleted ==
  /\ DO_isInstallCompleted(doServer) <=> doServer.installState >= SUCCESS
  /\ Gcp_isInstallCompleted(gcpServer) <=> gcpServer.installState >= SUCCESS

\* the description a droplet was built from
Described(desc) == doServer.dropletInfo = SnapshotDroplet(desc)

\* the endpoint the specification gives for a described droplet
C24_Endpoint(desc) ==
  LET text(hex) == HexTable[hex]
      withSlash(a) == IF a[Len(a)] = "/" THEN a ELSE a \o <<"/">>
      public == \E i \in DOMAIN desc.networks : desc.networks[i].type = "public"
  IN  IF desc.url \notin {"absent", ""}
        THEN Returned(withSlash(text(desc.url)))
      ELSE IF desc.port # "absent" /\ public
        THEN Returned(
               <<"h", "t", "t", "p", "s", ":", "/", "/", "a", ":">>
                 \o text(desc.port) \o <<"/">>
                 \o (IF desc.prefix = "absent" THEN <<>>
                     ELSE text(desc.prefix) \o <<"/">>))
      ELSE Thrown

\* C24: getManagementApiAddress returns the apiurl tag's text if the tag is
\* there with a text that is not empty, else https://<address>:<port>/ (and
\* the apiprefix text and '/', if that tag is there) from the apiport tag and
\* the public address, else throws; what it returns ends in '/'; and the
\* constructor passes it to setManagementApiUrl when it reaches SUCCESS.
C24_EndpointResolution ==
  \A desc \in SnapshotDescs :
    Described(desc) =>
      LET apiAddress == getManagementApiAddress(doServer.dropletInfo)
      IN  /\ apiAddress = C24_Endpoint(desc)
          /\ apiAddress.ok => endsWith(apiAddress.value, "/")
          /\ doServer.installState = SUCCESS =>
               doServer.apiUrlCalls = <<apiAddress.value>>
          /\ (refreshTimer # "unset" /\ desc.cert /\ apiAddress.ok) =>
               doServer.installState = SUCCESS

\* the constructor recorded https://a:8/v1/
C24_Witness ==
  /\ doServer.installState = SUCCESS
  /\ doServer.apiUrlCalls =
       << <<"h", "t", "t", "p", "s", ":", "/", "/", "a", ":", "8", "/",
            "v", "1", "/">> >>

\* C25: a droplet whose tags are written KV:CertSHA256:..., Kv:ApiUrl:...
\* decodes to the same tag map as the droplet with the tags in lower case,
\* and the constructor takes both to the same state with the same calls.
C25_CaseInsensitiveTags ==
  \A desc \in SnapshotDescs :
    Described(desc) =>
      LET lower == SnapshotDroplet([desc EXCEPT !.mixedCase = FALSE])
          polled == updateInstallState(NewDigitalOceanServer(lower), 0)
      IN  /\ getTagMap(doServer.dropletInfo) = getTagMap(lower)
          /\ refreshTimer # "unset" =>
               /\ doServer.installState = polled.installState
               /\ doServer.trustCalls = polled.trustCalls
               /\ doServer.apiUrlCalls = polled.apiUrlCalls

\* the constructor reached SUCCESS on tags in mixed case
C25_Witness ==
  /\ doServer.dropletInfo.tags =
       << <<"KV", "CertSHA256", "46">>, <<"Kv", "ApiUrl", "752f">> >>
  /\ doServer.installState = SUCCESS
  /\ doServer.trustCalls = <<"Rg==">>

\* snapshots that differ from the canonical one only in the case of keys
C26_CasePairs ==
  { << Items(<<Entry("apiurl", "https://a/"), Entry("certsha256", "Rg==")>>),
       Items(<<Entry("apiUrl", "https://a/"), Entry("certSha256", "Rg==")>>) >>,
    << Items(<<Entry("Install-Error", "E")>>),
       Items(<<Entry("install-error", "E")>>) >> }

\* C26: a guest-attribute snapshot whose keys differ from apiUrl,
\* certSha256, install-error only in letter case takes GcpServer to the
\* state the canonical snapshot takes it to.
C26_CaseInsensitiveKeys ==
  [][\A waiter \in BagToSet(gcpWaiters), pair \in C26_CasePairs :
       Gcp_Poll(waiter, pair[1]) =>
         gcpServer'.installState =
           PollBody(Begin(gcpServer),
                    getOutlineGuestAttributes(pair[2])).srv.installState
    ]_vars

\* the state the specification's rules give, first match first
C27_FirstMatch(dropletInfo, elapsed, installState) ==
  IF Truthy(getTagMap(dropletInfo), INSTALL_ERROR_TAG) THEN ERROR
  ELSE IF elapsed >= TIMEOUT_MS THEN ERROR
  ELSE IF /\ getCertificateFingerprint(dropletInfo).ok
          /\ getManagementApiAddress(dropletInfo).ok THEN SUCCESS
  ELSE IF DOMAIN getTagMap(dropletInfo) # {} THEN BOOTED
  ELSE IF dropletInfo.status = "active" THEN CREATED
  ELSE installState

\* C27: an evaluation of a getDroplet answer in a state that is not final
\* ends in the state of the first matching rule: error tag, timeout,
\* success tags, any tag, status 'active', else unchanged; when it ends in
\* ERROR nothing was trusted.
C27_RulePrecedence ==
  [][\A newDropletInfo \in DropletInfos :
       (DO_RefreshDone(newDropletInfo) /\ ~Final(doServer)) =>
         /\ doServer'.installState =
              C27_FirstMatch(newDropletInfo, Elapsed, doServer.installState)
         /\ doServer'.installState = ERROR =>
              doServer'.trustCalls = doServer.trustCalls
    ]_vars

\* a refresh brought success tags after the timeout: ERROR, nothing trusted
C27_Witness ==
  /\ doServer.installState = ERROR
  /\ doServer.dropletInfo = Droplet("active", <<certTag, urlTag>>, PublicNetworks)
  /\ doServer.trustCalls = <<>>
  /\ Elapsed >= TIMEOUT_MS
  /\ refreshTimer = "cleared"

HasKey(guestAttributes, key) ==
  \E i \in DOMAIN guestAttributes.items : guestAttributes.items[i].key = key

ValueOf(guestAttributes, key) ==
  LET last == CHOOSE i \in DOMAIN guestAttributes.items :
                /\ guestAttributes.items[i].key = key
                /\ \A j \in DOMAIN guestAttributes.items :
                     guestAttributes.items[j].key = key => j <= i
  IN  guestAttributes.items[last].value

\* what the loop body does with a snapshot in the current state
NextPoll(guestAttributes) ==
  PollBody(Begin(gcpServer), getOutlineGuestAttributes(guestAttributes))

\* C28: while a fetch is outstanding in a state that is not final, whatever
\* snapshot it brings: with apiUrl and certSha256 the fingerprint is trusted,
\* the endpoint recorded and the state SUCCESS, install-error or not; else
\* with install-error the state is ERROR; else the state is BOOTED if the
\* snapshot is not empty and the state was below BOOTED, and unchanged
\* otherwise, and the call does not throw, so it sleeps and polls again.
C28_SnapshotRule ==
  \A guestAttributes \in GuestAttributes :
    (GcpFetching(gcpWaiters) > 0 /\ ~Final(gcpServer)) =>
      LET r == NextPoll(guestAttributes)
      IN  IF /\ HasKey(guestAttributes, "apiUrl")
             /\ HasKey(guestAttributes, "certSha256")
            THEN /\ r.srv.installState = SUCCESS
                 /\ r.srv.trustCalls =
                      Append(gcpServer.trustCalls,
                             ValueOf(guestAttributes, "certSha256"))
                 /\ r.srv.apiUrlCalls =
                      Append(gcpServer.apiUrlCalls,
                             ValueOf(guestAttributes, "apiUrl"))
                 /\ ~r.thrown
          ELSE IF HasKey(guestAttributes, "install-error")
            THEN /\ r.srv.installState = ERROR
                 /\ r.srv.trustCalls = gcpServer.trustCalls
          ELSE /\ r.srv.installState =
                    IF /\ guestAttributes.items # <<>>
                       /\ gcpServer.installState < BOOTED
                      THEN BOOTED ELSE gcpServer.installState
               /\ r.srv.trustCalls = gcpServer.trustCalls
               /\ ~r.thrown

\* SUCCESS with the fingerprint trusted and the endpoint recorded once, the
\* call asleep before it leaves the loop
C28_Witness ==
  /\ gcpServer.installState = SUCCESS
  /\ gcpServer.trustCalls = <<"Rg==">>
  /\ gcpServer.apiUrlCalls = <<"https://a/">>
  /\ \E waiter \in BagToSet(gcpWaiters) : waiter.outcome = "sleeping"

\* the calls rejected with the install error
GcpRejected(waiters) ==
  LET rejected == {waiter \in BagToSet(waiters) :
                     waiter.outcome = "ServerInstallFailedError"}
  IN  BagCardinality([waiter \in rejected |-> waiters[waiter]])

\* C29: while a fetch is outstanding, an empty snapshot leaves the install
\* state as it is, and a snapshot with install-error and without both
\* success keys sets ERROR and throws; the call that threw is rejected with
\* ServerInstallFailedError in a step that ends in ERROR, and a rejected
\* call stays rejected, so it fetches no more.
C29_ErrorScenario ==
  /\ [](\A guestAttributes \in GuestAttributes :
          GcpFetching(gcpWaiters) > 0 =>
            /\ guestAttributes.items = <<>> =>
                 NextPoll(guestAttributes).srv.installState =
                   gcpServer.installState
            /\ (/\ HasKey(guestAttributes, "install-error")
                /\ ~(/\ HasKey(guestAttributes, "apiUrl")
                     /\ HasKey(guestAttributes, "certSha256")))
                 => /\ NextPoll(guestAttributes).srv.installState = ERROR
                    /\ NextPoll(guestAttributes).thrown)
  /\ [][/\ GcpRejected(gcpWaiters') >= GcpRejected(gcpWaiters)
        /\ GcpRejected(gcpWaiters') > GcpRejected(gcpWaiters) =>
             /\ gcpServer'.installState = ERROR
             /\ GcpFetching(gcpWaiters') < GcpFetching(gcpWaiters)
       ]_vars

\* one call was rejected on install-error, nothing was trusted, and no
\* fetch is outstanding
C29_Witness ==
  /\ gcpServer.installState = ERROR
  /\ gcpServer.trustCalls = <<>>
  /\ GcpRejected(gcpWaiters) = 1
  /\ GcpFetching(gcpWaiters) = 0

\* C30: until the creation promise has resolved the state is UNKNOWN and
\* every waitOnInstall call is suspended on the promise or, if it was
\* rejected, has failed with its error; the step in which a call leaves the
\* promise and fetches sets CREATED.
C30_CreationFirst ==
  /\ [](completion # "resolved" =>
          /\ gcpServer.installState = UNKNOWN
          /\ \A waiter \in BagToSet(gcpWaiters) :
               \/ waiter.outcome = "awaitCompletion"
               \/ waiter.outcome = "CreationError" /\ completion = "rejected")
  /\ [][\A waiter \in BagToSet(gcpWaiters) :
          (/\ Gcp_WaitResume(waiter)
           /\ GcpFetching(gcpWaiters') > GcpFetching(gcpWaiters))
            => /\ completion = "resolved"
               /\ gcpServer'.installState = CREATED
       ]_vars

\* the creation failed: two calls failed with its error and the state is
\* UNKNOWN
C30_Witness ==
  /\ completion = "rejected"
  /\ gcpServer.installState = UNKNOWN
  /\ BagCardinality(gcpWaiters) = 2
  /\ \A waiter \in BagToSet(gcpWaiters) : waiter.outcome = "CreationError"

\* the droplet answers that publish the fingerprint or an endpoint, not both
C31_PartialDroplets ==
  {dropletInfo \in DropletInfos :
     /\ \/ getCertificateFingerprint(dropletInfo).ok
        \/ getManagementApiAddress(dropletInfo).ok
     /\ ~(/\ getCertificateFingerprint(dropletInfo).ok
          /\ getManagementApiAddress(dropletInfo).ok)}

\* C31 as stated: an evaluation of an answer that publishes only one of the
\* two, in a state that is not final, ends in a state that is at most BOOTED.
C31_AtMostBooted ==
  [][\A newDropletInfo \in C31_PartialDroplets :
       (DO_RefreshDone(newDropletInfo) /\ ~Final(doServer)) =>
         doServer'.installState <= BOOTED
    ]_vars

\* C31: a step calls trustCertificate or setManagementApiUrl only if the
\* cached droplet publishes both the fingerprint and a resolvable endpoint,
\* and then it calls both once, with these values, and ends in SUCCESS; an
\* evaluation of an answer that publishes only one of the two calls neither
\* and, in a state that is not final, ends in BOOTED, or in ERROR when the
\* timeout has passed.
C31_NoPartialPublication ==
  [][/\ (\/ doServer'.trustCalls # doServer.trustCalls
         \/ doServer'.apiUrlCalls # doServer.apiUrlCalls) =>
          /\ getCertificateFingerprint(doServer'.dropletInfo).ok
          /\ getManagementApiAddress(doServer'.dropletInfo).ok
          /\ doServer'.trustCalls =
               Append(doServer.trustCalls,
                      getCertificateFingerprint(doServer'.dropletInfo).value)
          /\ doServer'.apiUrlCalls =
               Append(doServer.apiUrlCalls,
                      getManagementApiAddress(doServer'.dropletInfo).value)
          /\ doServer'.installState = SUCCESS
     /\ \A newDropletInfo \in C31_PartialDroplets :
          DO_RefreshDone(newDropletInfo) =>
            /\ doServer'.trustCalls = doServer.trustCalls
            /\ doServer'.apiUrlCalls = doServer.apiUrlCalls
            /\ ~Final(doServer) =>
                 doServer'.installState =
                   IF Elapsed >= TIMEOUT_MS THEN ERROR ELSE BOOTED
    ]_vars

\* the legacy port tag without a public address was evaluated: BOOTED, and
\* nothing trusted or recorded
C31_Witness ==
  /\ doServer.dropletInfo =
       Droplet("active", <<certTagUpper, portTag>>, NoNetworks)
  /\ doServer.installState = BOOTED
  /\ doServer.notified = <<<<1, 6>>>>
  /\ doServer.trustCalls = <<>>
  /\ doServer.apiUrlCalls = <<>>

\* C32: a getDroplet request that settles, with an answer or a failure, when
\* the install state is final leaves the state, the completed flag and the
\* trustCertificate and setManagementApiUrl calls as they were and does not
\* call the listener.
C32_LateRefreshIsInert ==
  [][(Final(doServer) /\ refresh' < refresh) =>
       /\ doServer'.installState = doServer.installState
       /\ doServer'.installCompleted = doServer.installCompleted
       /\ doServer'.trustCalls = doServer.trustCalls
       /\ doServer'.apiUrlCalls = doServer.apiUrlCalls
       /\ doServer'.notified = <<>>
    ]_vars

\* the success tags arrived after the delete callback: DELETED, the answer
\* cached, nothing trusted or recorded
C32_Witness ==
  /\ doServer.installState = DELETED
  /\ doServer.dropletInfo = Droplet("active", <<certTag, urlTag>>, PublicNetworks)
  /\ doServer.trustCalls = <<>>
  /\ doServer.apiUrlCalls = <<>>
  /\ refresh = 0

\* the install states a droplet answer may be evaluated in
NotFinal == {UNKNOWN, CREATED, BOOTED}

\* C33: tags outside the kv namespace do not reach the tag map, and a
\* droplet with such tags is evaluated, from every state that is not final,
\* as the droplet without them; if all its tags are outside the namespace
\* the tag map is empty and the result is CREATED for status 'active' and
\* the state unchanged otherwise.
C33_ForeignTagsIgnored ==
  \A desc \in SnapshotDescs :
    Described(desc) =>
      LET plain == SnapshotDroplet([desc EXCEPT !.foreign = FALSE])
          from(dropletInfo, installState) ==
            updateInstallState(
              [NewDigitalOceanServer(dropletInfo) EXCEPT
                 !.installState = installState], 0)
      IN  /\ getTagMap(doServer.dropletInfo) = getTagMap(plain)
          /\ \A installState \in NotFinal :
               from(doServer.dropletInfo, installState) =
                 [from(plain, installState) EXCEPT
                    !.dropletInfo = doServer.dropletInfo]
          /\ plain.tags = <<>> =>
               /\ getTagMap(doServer.dropletInfo) = EmptyMap
               /\ \A installState \in NotFinal :
                    from(doServer.dropletInfo, installState).installState =
                      IF desc.status = "active" THEN CREATED ELSE installState
               /\ refreshTimer # "unset" =>
                    doServer.installState =
                      IF desc.status = "active" THEN CREATED ELSE UNKNOWN

\* the constructor evaluated an active droplet whose tags are all outside
\* the namespace: CREATED
C33_Witness ==
  /\ doServer.dropletInfo.tags = ForeignTagsBefore \o ForeignTagsAfter
  /\ doServer.dropletInfo.status = "active"
  /\ doServer.installState = CREATED
  /\ refreshTimer = "active"

\* C34: a step in which an awaited step of delete fails (deleteDroplet; the
\* creation promise; deleteStaticIp) ends that call without a later request
\* and without the delete callback, and leaves the install state as it
\* was and the listener uncalled; the state becomes DELETED only in a step that
\* runs the callback.
C34_FailedDeleteChangesNothing ==
  [][/\ DO_DeleteFailed =>
          /\ doDeletes'.callbacks = doDeletes.callbacks
          /\ doDeletes'.pending = doDeletes.pending - 1
          /\ doServer'.installState = doServer.installState
          /\ doServer'.notified = <<>>
     /\ ((Gcp_DeleteResume /\ completion = "rejected")
           \/ Gcp_DeleteStaticIpFailed) =>
          /\ gcpDeletes'.callbacks = gcpDeletes.callbacks
          /\ gcpDeletes'.deleteInstance = gcpDeletes.deleteInstance
          /\ gcpDeletes'.awaitDeleteStaticIp <= gcpDeletes.awaitDeleteStaticIp
          /\ gcpDeletes'.awaitCompletion + gcpDeletes'.awaitDeleteStaticIp =
               gcpDeletes.awaitCompletion + gcpDeletes.awaitDeleteStaticIp - 1
          /\ gcpServer'.installState = gcpServer.installState
          /\ gcpServer'.notified = <<>>
     /\ (doServer'.installState = DELETED /\ doServer.installState # DELETED)
          => DO_DeleteCallback
     /\ (gcpServer'.installState = DELETED /\ gcpServer.installState # DELETED)
          => Gcp_DeleteCallback
    ]_vars

\* the creation promise was rejected with a delete call suspended on it:
\* nothing was requested, no callback ran and the state is UNKNOWN
C34_Witness ==
  /\ completion = "rejected"
  /\ gcpDeletes = [NoDeletes EXCEPT !.awaitCompletion = 1]
  /\ gcpServer.installState = UNKNOWN
  /\ \E waiter \in BagToSet(gcpWaiters) : waiter.outcome = "CreationError"

\* the servers that were created and not closed
OpenServers ==
  {server \in DOMAIN accessService.servers :
     accessService.servers[server] # "closed"}

\* a start() call is suspended in generateConfig
Generating ==
  \E call \in DOMAIN accessService.starts :
    accessService.starts[call].at = "generateConfig"

\* C35: at most one server is created and not closed, and a start() called
\* while this.server is set or while an earlier start() is suspended in
\* generateConfig throws 'access server already started', creates no server
\* and requests no port.
C35_SingleServer ==
  /\ [](Cardinality(OpenServers) <= 1)
  /\ [][(Access_start /\ (accessService.server # NoServer \/ Generating)) =>
          /\ accessService'.starts[Len(accessService'.starts)].at =
               "already started"
          /\ accessService'.servers = accessService.servers
          /\ accessService'.reserveNewPort = accessService.reserveNewPort
       ]_vars

====
